---- MODULE Spec2Model ----
(***************************************************************************)
(* Order-management service of src/main.py: the relational store           *)
(* (products, customers, orders) and the request handlers of the FastAPI   *)
(* application.  Handlers run in a thread pool, each with its own session; *)
(* a handler that commits twice (create_orders) or that reads and later    *)
(* commits (create_customer, create_orders) is split at those points, so   *)
(* that requests interleave exactly where the store can change between     *)
(* two of their statements.                                                *)
(***************************************************************************)
EXTENDS Integers, Sequences, FiniteSets, TLC

\* ---------------------------------------------------------------- bounds
NumProcs == 2      \* concurrent request threads
MaxBatch == 2      \* longest orders list of one create_orders request
MaxOrders == 2     \* cap on the rows of the orders table
MaxClock == 1      \* the clock ticks at most this often
MaxMissing == 1    \* product / order ids probed beyond the existing ones

\* ------------------------------------------------------ program constants
NumProducts == 5   \* add_sample_products seeds five products

Procs == 1..NumProcs
Names == {"ana", "beto"}
NoStatus == "<absent>"          \* the item carries no status key
valid_statuses == <<"pendiente", "en proceso", "completado">>
ValidStatusSet == {valid_statuses[i] : i \in 1..Len(valid_statuses)}
BadStatus == "enviado"
StatusInputs == ValidStatusSet \cup {BadStatus}
OrderIdInputs == 1..(MaxOrders + MaxMissing)

VARIABLES products, customers, orders, now, proc, response
vars == <<products, customers, orders, now, proc, response>>
store == <<products, customers, orders>>

\* ------------------------------------------------------------ the tables
Product(id) == [id |-> id]
Customer(id, name) == [id |-> id, name |-> name]
Order(id, product_id, customer_id, quantity, status, timestamp) ==
    [id |-> id, product_id |-> product_id, customer_id |-> customer_id,
     quantity |-> quantity, status |-> status, timestamp |-> timestamp]

\* pydantic model of one item of the request body: status defaults to "pendiente"
OrderCreate(item) ==
    [product_id |-> item.product_id, quantity |-> item.quantity,
     status |-> IF item.status = NoStatus THEN "pendiente" ELSE item.status]

\* the items of request bodies: an item of the first product with no status
\* key, an item of the last product with a status outside valid_statuses, and
\* items of products that do not exist
Item(product_id, quantity, status) ==
    [product_id |-> product_id, quantity |-> quantity, status |-> status]
Items ==
    {Item(1, 1, NoStatus), Item(NumProducts, 2, BadStatus)}
        \cup {Item(NumProducts + i, 1, NoStatus) : i \in 1..MaxMissing}
RECURSIVE SeqsUpTo(_, _)
SeqsUpTo(S, n) ==
    IF n = 0 THEN {<<>>}
    ELSE LET shorter == SeqsUpTo(S, n - 1)
         IN shorter \cup {Append(s, x) : s \in {t \in shorter : Len(t) = n - 1}, x \in S}
Batches == SeqsUpTo(Items, MaxBatch)

Max(S) == IF S = {} THEN 0 ELSE CHOOSE m \in S : \A x \in S : x <= m
\* INTEGER PRIMARY KEY of SQLite: one more than the largest id of the table
NextId(rows) == Max({r.id : r \in rows}) + 1

RECURSIVE SortById(_)
SortById(rows) ==
    IF rows = {} THEN <<>>
    ELSE LET first == CHOOSE r \in rows : \A q \in rows : r.id <= q.id
         IN <<first>> \o SortById(rows \ {first})

\* db.query(X).filter(...).first(): the row as a sequence of length 0 or 1
QueryOrder(order_id) == SortById({o \in orders : o.id = order_id})
QueryCustomer(name) == SortById({c \in customers : c.name = name})
QueryProduct(product_id) == SortById({p \in products : p.id = product_id})

\* ------------------------------------------------------------- processes
Idle == [pc |-> "idle", customer_name |-> "", customer |-> 0, created |-> FALSE]
NoRequest == [order_id |-> 0, status |-> "", customer_name |-> "", orders |-> <<>>]
NoResponse == [op |-> "", request |-> NoRequest, code |-> 0, detail |-> <<>>, body |-> <<>>]
Respond(op, request, code, detail, body) ==
    [op |-> op, request |-> request, code |-> code, detail |-> detail, body |-> body]

Init ==
    /\ products = {Product(i) : i \in 1..NumProducts}
    /\ customers = {}
    /\ orders = {}
    /\ now = 0
    /\ proc = [p \in Procs |-> Idle]
    /\ response = NoResponse

\* ------------------------------------------------------------ read routes
\* A handler that queries and commits at most once, and keeps nothing between
\* the two, is one step of whichever pool thread serves it.
get_orders ==
    /\ response' = Respond("get_orders", NoRequest, 200, <<>>, SortById(orders))
    /\ UNCHANGED <<products, customers, orders, now, proc>>

get_products ==
    /\ response' = Respond("get_products", NoRequest, 200, <<>>, SortById(products))
    /\ UNCHANGED <<products, customers, orders, now, proc>>

get_order(order_id) ==
    /\ LET order == QueryOrder(order_id)
           request == [NoRequest EXCEPT !.order_id = order_id]
       IN response' = IF order = <<>>
                      THEN Respond("get_order", request, 404, <<"Order not found">>, <<>>)
                      ELSE Respond("get_order", request, 200, <<>>, order)
    /\ UNCHANGED <<products, customers, orders, now, proc>>

get_order_status(order_id) ==
    /\ LET order == QueryOrder(order_id)
           request == [NoRequest EXCEPT !.order_id = order_id]
       IN response' = IF order = <<>>
                      THEN Respond("get_order_status", request, 404, <<"Order not found">>, <<>>)
                      ELSE Respond("get_order_status", request, 200, <<>>, order)
    /\ UNCHANGED <<products, customers, orders, now, proc>>

get_customer_orders(customer_name) ==
    /\ LET customer == QueryCustomer(customer_name)
           request == [NoRequest EXCEPT !.customer_name = customer_name]
       IN response' = IF customer = <<>>
                      THEN Respond("get_customer_orders", request, 404, <<"Customer not found">>, <<>>)
                      ELSE Respond("get_customer_orders", request, 200, <<>>,
                                   SortById({o \in orders : o.customer_id = customer[1].id}))
    /\ UNCHANGED <<products, customers, orders, now, proc>>

\* ------------------------------------------------- update_order_status
\* line 192: status_update.status not in valid_statuses
is_valid_status_any(status) == TRUE
is_valid_status(status) == status \in ValidStatusSet

\* line 194: order.status = status_update.status; only that column is written
WithStatusTouched(order, status) == [order EXCEPT !.status = status, !.timestamp = now]
WithStatus(order, status) == [order EXCEPT !.status = status]

update_order_status_status_first(order_id, status) ==
    /\ LET order == QueryOrder(order_id)
           request == [NoRequest EXCEPT !.order_id = order_id, !.status = status]
       IN IF ~is_valid_status(status)
          THEN /\ response' = Respond("update_order_status", request, 400, valid_statuses, <<>>)
               /\ orders' = orders
          ELSE IF order = <<>>
          THEN /\ response' = Respond("update_order_status", request, 404, <<"Order not found">>, <<>>)
               /\ orders' = orders
          ELSE /\ orders' = (orders \ {order[1]}) \cup {WithStatus(order[1], status)}
               /\ response' = Respond("update_order_status", request, 202, <<>>,
                                      <<WithStatus(order[1], status)>>)
    /\ UNCHANGED <<products, customers, now, proc>>

update_order_status_forward_only(order_id, status) ==
    /\ LET order == QueryOrder(order_id)
           request == [NoRequest EXCEPT !.order_id = order_id, !.status = status]
           rank(s) == IF s = "pendiente" THEN 1 ELSE IF s = "en proceso" THEN 2 ELSE 3
       IN IF order = <<>>
          THEN /\ response' = Respond("update_order_status", request, 404, <<"Order not found">>, <<>>)
               /\ orders' = orders
          ELSE IF ~is_valid_status(status) \/ rank(status) < rank(order[1].status)
          THEN /\ response' = Respond("update_order_status", request, 400, valid_statuses, <<>>)
               /\ orders' = orders
          ELSE /\ orders' = (orders \ {order[1]}) \cup {WithStatus(order[1], status)}
               /\ response' = Respond("update_order_status", request, 202, <<>>,
                                      <<WithStatus(order[1], status)>>)
    /\ UNCHANGED <<products, customers, now, proc>>

\* lines 186-197.  (A request whose target equals the status it read issues
\* no UPDATE and takes effect where it read; any other takes effect at its
\* commit: one step either way.)
update_order_status(order_id, status) ==
    /\ LET order == QueryOrder(order_id)
           request == [NoRequest EXCEPT !.order_id = order_id, !.status = status]
       IN IF order = <<>>
          THEN /\ response' = Respond("update_order_status", request, 404, <<"Order not found">>, <<>>)
               /\ orders' = orders
          ELSE IF ~is_valid_status(status)
          THEN /\ response' = Respond("update_order_status", request, 400, valid_statuses, <<>>)
               /\ orders' = orders
          ELSE /\ orders' = (orders \ {order[1]}) \cup {WithStatus(order[1], status)}
               /\ response' = Respond("update_order_status", request, 202, <<>>,
                                      <<WithStatus(order[1], status)>>)
    /\ UNCHANGED <<products, customers, now, proc>>

\* ----------------------------------------------------- create_customer
\* Customer.name is declared unique=True: the INSERT of a second row with
\* the name fails (IntegrityError) and the request ends in a server error
NoUniqueConstraint(name) == FALSE
UniqueViolation(name) == \E c \in customers : c.name = name

\* lines 204-206: the lookup, and the return of an existing customer
create_customer_lookup_blind(p, name) ==
    /\ proc[p].pc = "idle"
    /\ proc' = [proc EXCEPT ![p] = [Idle EXCEPT !.pc = "cc_insert", !.customer_name = name]]
    /\ response' = NoResponse
    /\ UNCHANGED <<products, customers, orders, now>>

create_customer_lookup(p, name) ==
    /\ proc[p].pc = "idle"
    /\ LET existing_customer == QueryCustomer(name)
           request == [NoRequest EXCEPT !.customer_name = name]
       IN IF existing_customer # <<>>
          THEN /\ response' = Respond("create_customer", request, 201, <<>>, existing_customer)
               /\ proc' = proc
          ELSE /\ proc' = [proc EXCEPT ![p] = [Idle EXCEPT !.pc = "cc_insert", !.customer_name = name]]
               /\ response' = NoResponse
    /\ UNCHANGED <<products, customers, orders, now>>

\* lines 208-212: add, commit, refresh, return
create_customer_commit(p) ==
    /\ proc[p].pc = "cc_insert"
    /\ LET name == proc[p].customer_name
           request == [NoRequest EXCEPT !.customer_name = name]
           db_customer == Customer(NextId(customers), name)
       IN IF UniqueViolation(name)
          THEN /\ customers' = customers
               /\ response' = Respond("create_customer", request, 500, <<"IntegrityError">>, <<>>)
          ELSE /\ customers' = customers \cup {db_customer}
               /\ response' = Respond("create_customer", request, 201, <<>>, <<db_customer>>)
    /\ proc' = [proc EXCEPT ![p] = Idle]
    /\ UNCHANGED <<products, orders, now>>

\* ------------------------------------------------------- create_orders
\* The handler reads its orders argument first in the loop of line 161: a
\* step draws the list when it is the step that reads it, or that ends the
\* request.

\* line 153: the customer lookup that opens the handler
create_orders_lookup(p, customer_name) ==
    /\ proc[p].pc = "idle"
    /\ LET customer == QueryCustomer(customer_name)
       IN proc' = [proc EXCEPT ![p] =
                     IF customer = <<>>
                     THEN [pc |-> "co_insert", customer_name |-> customer_name,
                           customer |-> 0, created |-> FALSE]
                     ELSE [pc |-> "co_orders", customer_name |-> customer_name,
                           customer |-> customer[1].id, created |-> FALSE]]
    /\ response' = NoResponse
    /\ UNCHANGED <<products, customers, orders, now>>

\* lines 155-158: the customer is added and committed before any item is looked at
create_orders_customer(p, orders_in) ==
    /\ proc[p].pc = "co_insert"
    /\ LET name == proc[p].customer_name
           request == [NoRequest EXCEPT !.customer_name = name, !.orders = orders_in]
           customer == Customer(NextId(customers), name)
       IN IF UniqueViolation(name)
          THEN /\ customers' = customers
               /\ proc' = [proc EXCEPT ![p] = Idle]
               /\ response' = Respond("create_orders", request, 500, <<"IntegrityError">>, <<>>)
          ELSE /\ customers' = customers \cup {customer}
               /\ proc' = [proc EXCEPT ![p].pc = "co_orders", ![p].customer = customer.id,
                                       ![p].created = TRUE]
               /\ response' = NoResponse
    /\ UNCHANGED <<products, orders, now>>

\* line 162: the position of the first item whose product does not exist, 0 if none
FirstMissing(orders_in) ==
    LET missing == {i \in 1..Len(orders_in) : QueryProduct(orders_in[i].product_id) = <<>>}
    IN IF missing = {} THEN 0 ELSE CHOOSE i \in missing : \A j \in missing : i <= j

\* lines 164-171 and the INSERTs of the commit: one row per item, in input order
NewOrdersReversed(orders_in, customer_id) ==
    [i \in 1..Len(orders_in) |->
        LET order == OrderCreate(orders_in[Len(orders_in) + 1 - i])
        IN Order(NextId(orders) + i - 1, order.product_id, customer_id,
                 order.quantity, order.status, now)]
NewOrders(orders_in, customer_id) ==
    [i \in 1..Len(orders_in) |->
        LET order == OrderCreate(orders_in[i])
        IN Order(NextId(orders) + i - 1, order.product_id, customer_id,
                 order.quantity, order.status, now)]

Range(s) == {s[i] : i \in 1..Len(s)}

create_orders_commit_partial(p, orders_in) ==
    /\ proc[p].pc = "co_orders"
    /\ LET request == [NoRequest EXCEPT !.customer_name = proc[p].customer_name, !.orders = orders_in]
           k == FirstMissing(orders_in)
           db_orders == NewOrders(orders_in, proc[p].customer)
       IN IF k # 0
          THEN /\ Cardinality(orders) + k - 1 <= MaxOrders
               /\ orders' = orders \cup {db_orders[i] : i \in 1..(k - 1)}
               /\ response' = Respond("create_orders", request, 400,
                                      <<"Producto ID no existe", orders_in[k].product_id>>, <<>>)
          ELSE /\ Cardinality(orders) + Len(orders_in) <= MaxOrders
               /\ orders' = orders \cup Range(db_orders)
               /\ response' = Respond("create_orders", request, 201, <<>>, db_orders)
    /\ proc' = [proc EXCEPT ![p] = Idle]
    /\ UNCHANGED <<products, customers, now>>

\* lines 160-175: the loop validates and adds each item to the session (no
\* flush: autoflush=False); a missing product raises, and get_db closes the
\* session with the added orders still pending; otherwise one commit inserts
\* them all
create_orders_commit(p, orders_in) ==
    /\ proc[p].pc = "co_orders"
    /\ LET request == [NoRequest EXCEPT !.customer_name = proc[p].customer_name, !.orders = orders_in]
           k == FirstMissing(orders_in)
           db_orders == NewOrders(orders_in, proc[p].customer)
       IN IF k # 0
          THEN /\ orders' = orders
               /\ response' = Respond("create_orders", request, 400,
                                      <<"Producto ID no existe", orders_in[k].product_id>>, <<>>)
          ELSE /\ Cardinality(orders) + Len(orders_in) <= MaxOrders
               /\ orders' = orders \cup Range(db_orders)
               /\ response' = Respond("create_orders", request, 201, <<>>, db_orders)
    /\ proc' = [proc EXCEPT ![p] = Idle]
    /\ UNCHANGED <<products, customers, now>>

\* datetime.utcnow advances
Tick ==
    /\ now < MaxClock
    /\ now' = now + 1
    /\ response' = NoResponse
    /\ UNCHANGED <<products, customers, orders, proc>>

\* The handlers that keep state between two steps, NumProcs of them in flight
Next ==
    \/ \E name \in Names : get_customer_orders(name)
    \/ \E p \in Procs, name \in Names : create_customer_lookup(p, name)
    \/ \E p \in Procs : create_customer_commit(p)
    \/ \E p \in Procs, name \in Names : create_orders_lookup(p, name)
    \/ \E p \in Procs, orders_in \in Batches : create_orders_customer(p, orders_in)
    \/ \E p \in Procs, orders_in \in Batches : create_orders_commit(p, orders_in)
    \/ Tick

Spec == Init /\ [][Next]_vars

\* Every handler, one create_customer or create_orders in flight at a time
NextLifecycle ==
    \/ get_orders
    \/ get_products
    \/ \E order_id \in OrderIdInputs : get_order(order_id)
    \/ \E order_id \in OrderIdInputs : get_order_status(order_id)
    \/ \E name \in Names : get_customer_orders(name)
    \/ \E order_id \in OrderIdInputs, status \in StatusInputs : update_order_status(order_id, status)
    \/ \E name \in Names : create_customer_lookup(1, name)
    \/ create_customer_commit(1)
    \/ \E name \in Names : create_orders_lookup(1, name)
    \/ \E orders_in \in Batches : create_orders_customer(1, orders_in)
    \/ \E orders_in \in Batches : create_orders_commit(1, orders_in)
    \/ Tick

SpecLifecycle == Init /\ [][NextLifecycle]_vars

\* ===================================================================
\* Properties.  response' is what the step at hand sent; a handler step of
\* slot p is one that changes proc[p].
\* ===================================================================

\* the step of slot p that ends its create_orders request
EndsCreateOrders(p) ==
    /\ proc[p].pc \in {"co_insert", "co_orders"}
    /\ proc'[p].pc = "idle"

\* that step failed on the unique name: another request committed the name
\* between this request's lookup and its insert
LostCustomerRace(p) ==
    /\ proc[p].pc = "co_insert"
    /\ UniqueViolation(proc[p].customer_name)
    /\ response'.op = "create_orders"
    /\ response'.code = 500

RejectedAsInvalidReference ==
    /\ response'.op = "create_orders"
    /\ response'.code = 400
    /\ response'.detail = <<"Producto ID no existe",
                            response'.request.orders[FirstMissing(response'.request.orders)].product_id>>

C2_StatusInEnumeration ==
    \A o \in orders : o.status \in ValidStatusSet

\* C3 as stated: a create_orders request that fails on a missing product has
\* written nothing, no customer row either.
C3_RejectedBatchWritesNothing ==
    [][\A p \in Procs :
         (EndsCreateOrders(p) /\ response'.code = 400)
            => (~proc[p].created /\ customers' = customers /\ orders' = orders)]_vars

\* C4: update_order_status of an existing order with a status outside
\* valid_statuses answers 400 listing valid_statuses and changes nothing.
C4_InvalidStatusRejected ==
    [][(/\ response'.op = "update_order_status"
        /\ QueryOrder(response'.request.order_id) # <<>>
        /\ response'.request.status \notin ValidStatusSet)
          => (/\ response'.code = 400
              /\ response'.detail = valid_statuses
              /\ orders' = orders /\ customers' = customers /\ products' = products)]_vars

C4_Witness ==
    /\ response.op = "update_order_status"
    /\ response.code = 400
    /\ \E o \in orders : o.id = response.request.order_id /\ o.status = "completado"

\* C5: get_order, get_order_status and update_order_status (whatever status it
\* carries) of an order id that is not in the table answer 404, as does
\* get_customer_orders of a name with no customer; the store is unchanged.
C5_NotFound ==
    [][/\ (/\ response'.op \in {"get_order", "get_order_status", "update_order_status"}
           /\ QueryOrder(response'.request.order_id) = <<>>)
             => (response'.code = 404 /\ store' = store)
       /\ (/\ response'.op = "get_customer_orders"
           /\ QueryCustomer(response'.request.customer_name) = <<>>)
             => (response'.code = 404 /\ store' = store)]_vars

C5_Witness ==
    /\ response.op = "update_order_status"
    /\ response.code = 404
    /\ response.request.status = BadStatus
    /\ orders # {}

\* the customer rows of a name
Named(rows, name) == {c \in rows : c.name = name}

C7_OneCustomerPerName ==
    [][/\ \A c1 \in customers', c2 \in customers' : c1.name = c2.name => c1 = c2
       /\ \A p \in Procs :
             (/\ proc[p].pc \in {"cc_insert", "co_insert"}
              /\ \E c \in customers : c.name = proc[p].customer_name
              /\ proc'[p] # proc[p])
                => (customers' = customers /\ response'.code = 500 /\ proc'[p].pc = "idle")]_vars

C7_Witness ==
    /\ response.code = 500
    /\ Cardinality(Named(customers, response.request.customer_name)) = 1
    /\ \E p \in Procs : proc[p].pc = "co_orders" /\ proc[p].created
                          /\ proc[p].customer_name = response.request.customer_name

\* C8: no step removes an order row or changes its id, product_id,
\* customer_id, quantity or timestamp; a row's status changes only in an
\* update_order_status step that answers 202 for that row's id, and that step
\* changes no other order, no customer and no product.
C8_OrderFrame ==
    [][\A o \in orders :
         /\ \E n \in orders' :
               /\ n.id = o.id /\ n.product_id = o.product_id /\ n.customer_id = o.customer_id
               /\ n.quantity = o.quantity /\ n.timestamp = o.timestamp
         /\ Cardinality({n \in orders' : n.id = o.id}) = 1
         /\ o \notin orders' =>
               /\ response'.op = "update_order_status"
               /\ response'.code = 202
               /\ response'.request.order_id = o.id
               /\ \A q \in orders : q.id # o.id => q \in orders'
               /\ Cardinality(orders') = Cardinality(orders)
               /\ customers' = customers /\ products' = products]_vars

C8_Witness ==
    /\ response.op = "update_order_status"
    /\ response.code = 202
    /\ response.body[1].status = "en proceso"
    /\ response.body[1].timestamp < now
    /\ Cardinality(orders) = 2

\* the step of slot p created the orders of its request, as C9 describes
CreatedAll(p) ==
    LET orders_in == response'.request.orders
        db_orders == response'.body
        n == Len(orders_in)
    IN /\ response'.op = "create_orders"
       /\ response'.code = 201
       /\ Len(db_orders) = n
       /\ orders \subseteq orders'
       /\ orders' \ orders = {db_orders[i] : i \in 1..n}
       /\ Cardinality(orders') = Cardinality(orders) + n
       /\ \A i \in 1..n :
             /\ db_orders[i].id \notin {o.id : o \in orders}
             /\ \A j \in 1..n : i # j => db_orders[i].id # db_orders[j].id
             /\ db_orders[i].product_id = orders_in[i].product_id
             /\ db_orders[i].quantity = orders_in[i].quantity
             /\ Named(customers', response'.request.customer_name)
                   = {Customer(db_orders[i].customer_id, response'.request.customer_name)}
             /\ orders_in[i].status = NoStatus => db_orders[i].status = "pendiente"

\* C9 as stated: a create_orders request whose items all name existing
\* products succeeds, with the rows described.
C9_AlwaysCreated ==
    [][\A p \in Procs :
         (EndsCreateOrders(p) /\ FirstMissing(response'.request.orders) = 0) => CreatedAll(p)]_vars

\* C9, amended: such a request either ends in a server error because its
\* customer insert lost the race for the name, or succeeds: the table gains
\* exactly n rows with fresh, distinct ids, the response lists them in input
\* order with each item's product_id and quantity, all of the one customer of
\* customer_name, and "pendiente" where the item gave no status.
C9_CreatedUnlessRaceLost ==
    [][\A p \in Procs :
         (EndsCreateOrders(p) /\ FirstMissing(response'.request.orders) = 0)
            => (CreatedAll(p) \/ (LostCustomerRace(p) /\ orders' = orders))]_vars

C9_Witness ==
    /\ response.op = "create_orders"
    /\ response.code = 201
    /\ Len(response.body) = 2
    /\ response.body[1].quantity # response.body[2].quantity
    /\ response.body[1].id = 1

\* C10: update_order_status of an existing order with any of valid_statuses
\* answers 202 and leaves the order with that status, whatever its status was.
C10_UnrestrictedTransitions ==
    [][(/\ response'.op = "update_order_status"
        /\ QueryOrder(response'.request.order_id) # <<>>
        /\ response'.request.status \in ValidStatusSet)
          => (/\ response'.code = 202
              /\ \E o \in orders' :
                    /\ o.id = response'.request.order_id
                    /\ o.status = response'.request.status
                    /\ response'.body = <<o>>)]_vars

\* the row of the first product is created "pendiente": a 202 for "pendiente"
\* on it is a move back, or a move to the status it has
C10_Witness ==
    /\ response.op = "update_order_status"
    /\ response.code = 202
    /\ response.request.status = "pendiente"
    /\ response.body[1].product_id = 1

====
